---- MODULE Spec2Model ----
(***************************************************************************)
(* The per-user relay coordinator of FileChat (the Durable Object `fllo`   *)
(* of src/worker/src/do/index.ts): handshake tokens, the registry of       *)
(* accepted WebSockets with their attachments, the frame router, the       *)
(* heartbeat alarm and the transfers table it writes to.                   *)
(*                                                                         *)
(* One action per handler.  A handler reads and writes the coordinator's   *)
(* state before its first await of anything but storage, so no other       *)
(* event comes between its effects: a handler step records the event in    *)
(* `ev` and the envelopes it put on sockets in `sent`, and the Return step *)
(* that follows hands the envelopes to the network and leaves the          *)
(* coordinator idle for the next event.                                    *)
(***************************************************************************)
EXTENDS Integers, Sequences, FiniteSets, TLC

VARIABLES
    tokens,      \* this.tokens: token value -> DeviceMeta
    nextToken,   \* the next value crypto.randomUUID() hands out (always fresh)
    sockets,     \* state.getWebSockets(): accepted sockets, in acceptance order
    nextWs,      \* identity of the next socket acceptWebSocket() is given
    alarm,       \* state.storage.getAlarm(): the armed sweep time, or NoAlarm
    now,         \* Date.now()
    transfers,   \* rows of the transfers table, in insertion order
    accepted,    \* history: token value -> upgrades accepted on presenting it
    issuedAt,    \* history: waiting token -> Date.now() when it was issued
    caller,      \* history: the account the last routed request came from
    users,             \* rows of the users table
    invitation_codes,  \* the invitation_codes table: code -> [max_uses, use_count]
    registrations,     \* POST /user/register requests: where each one stands
    ev,          \* the event being handled, NoEvent when idle
    sent         \* envelopes its handler has sent: <<[to, type, data], ...>>

\* the tables and requests of the account routes
dbVars == <<users, invitation_codes, registrations>>

vars == <<tokens, nextToken, sockets, nextWs, alarm, now, transfers, accepted, issuedAt,
          caller, ev, sent, dbVars>>

---------------------------------------------------------------------------
(* Program constants *)

HEARTBEAT_TIMEOUT_MS == 90000
ALARM_INTERVAL_MS == 30000

READY_STATE_OPEN == "OPEN"
READY_STATE_CLOSING == "CLOSING"

(* getAlarm() answers null when no alarm is armed *)
NoAlarm == -1

(* no request has been routed yet; a request on a public route has no account *)
NoCaller == "none"
Anonymous == "anonymous"

---------------------------------------------------------------------------
(* Bounds of the model *)

MaxTokens == 3          \* tokens issued in a run
MaxSockets == 3         \* sockets accepted in a run
MaxTransfers == 1       \* rows inserted in a run
MaxIntervals == 5       \* the clock stops after this many sweep intervals
MaxRegistrations == 2   \* registration requests in a run

MaxNow == MaxIntervals * ALARM_INTERVAL_MS

\* clock steps: a sweep interval, and a silence long enough to time out
TickMs == ALARM_INTERVAL_MS
SilenceMs == HEARTBEAT_TIMEOUT_MS + ALARM_INTERVAL_MS

---------------------------------------------------------------------------
(* Input domains *)

UserId == "u1"                          \* state.id.name of this coordinator
DeviceIds == {"dA", "dB"}               \* device identifiers clients present
ReceiverIds == DeviceIds \cup {"dC"}    \* dC never connects

\* DeviceMeta values (types.ts) presented at the handshake
DeviceMetas == [id : DeviceIds, name : {"n1"}, emoji : {"e"}]

\* bodies of POST /wstoken that lack a member of DeviceMeta
MalformedMetas == {[id |-> "absent", name |-> "n1", emoji |-> "e"],
                   [id |-> "dA", name |-> "absent", emoji |-> "e"],
                   [id |-> "dB", name |-> "n1", emoji |-> "absent"]}

\* `data` of a frame that carries none (JSON.parse leaves it undefined)
Undefined == [undefined |-> TRUE]

\* what a device_update frame may carry: a renamed identity, an identity
\* with another id, or no data at all
UpdateData == [id : DeviceIds, name : {"n2"}, emoji : {"e"}] \cup {Undefined}

\* sender_id as the client may put it in a payload: absent, or a device id
ClaimedSenders == {"absent", "dA"}

TextMessages == [receiver_id : ReceiverIds, sender_id : ClaimedSenders, content : {"hi"}]
FileMessages == [receiver_id : ReceiverIds, sender_id : ClaimedSenders,
                 file_name : {"f"}, storage_key : {"absent", "k1"}]

\* `data` of a frame of another type: a JSON object, with or without a
\* receiver_id, or a JSON array (which has neither member)
ArrayMessage == [json |-> "array", receiver_id |-> "absent", sender_id |-> "absent",
                 body |-> "sdp"]
ForwardableMessages ==
    [json : {"object"}, receiver_id : ReceiverIds \cup {"absent"},
     sender_id : ClaimedSenders, body : {"sdp"}] \cup {ArrayMessage}

\* frame types that reach the `default` branch of the dispatch
DefaultTypes == {"rtc_offer", "rtc_answer", "rtc_ice_candidate"}

\* `type` of a frame whose JSON has no type member: no case matches undefined,
\* it takes the `default` branch
NoType == "absent"

\* accounts: UserId owns this coordinator, u2 is another registered user
Users == {UserId, "u2"}

\* the userId query parameter of a request, absent or any account's id
QueryUserIds == Users \cup {"absent"}

\* bodies of POST /user/register: a user name (or none) and an invitation
\* code, one the admin has created or one that does not exist
Usernames == {"alice", "bob"}
InvitationCode == "AAA-BBB"
RegisterBodies == [username : Usernames \cup {"absent"},
                   invitation_code : {InvitationCode, "ZZZ-ZZZ"}]

\* a request that has not arrived yet
NoRegistration == [pc |-> "idle", username |-> "", invitation_code |-> "",
                   use_count |-> 0, max_uses |-> 0, existing |-> FALSE, status |-> 0]

NoEvent == [op |-> "idle", ws |-> 0, type |-> "", data |-> Undefined,
            token |-> 0, status |-> 0, dbOk |-> TRUE, readyState |-> "", tag |-> "",
            age |-> 0]

Event(op, ws, type, data) ==
    [NoEvent EXCEPT !.op = op, !.ws = ws, !.type = type, !.data = data]

---------------------------------------------------------------------------
(* The connection registry: state.getWebSockets / getTags / attachments *)

\* state.getWebSockets(): every accepted socket the runtime has not dropped;
\* a socket the server has closed stays listed, CLOSING, until the peer's
\* close arrives
GetWebSockets(socks) == socks

\* mutation: the tag filter is lost and every socket is returned
GetWebSocketsIgnoringTag(socks, tag) == socks

\* state.getWebSockets(tag): the accepted sockets carrying the tag; the
\* parameter is optional, and an undefined tag (a payload without
\* receiver_id) is no tag: every socket is returned
GetWebSocketsByTag(socks, tag) ==
    IF tag = "absent" THEN GetWebSockets(socks)
    ELSE SelectSeq(socks, LAMBDA c : c.tag = tag)

\* state.getTags(ws)[0]
GetTag(ws) == ws.tag

\* a tag is a string: acceptWebSocket turns an undefined id into "undefined"
TagOf(id) == IF id = "absent" THEN "undefined" ELSE id

\* acceptWebSocket(server, [deviceMeta.id]) followed by
\* serializeAttachment({deviceMeta, lastPing: Date.now()})
AcceptWebSocket(id, deviceMeta, t) ==
    [id |-> id, tag |-> TagOf(deviceMeta.id), deviceMeta |-> deviceMeta, lastPing |-> t,
     readyState |-> READY_STATE_OPEN,
     signalAt |-> t]     \* history: when the client last registered or pinged

\* the registry once the runtime has dropped the socket at position i
DropSocket(socks, i) == SubSeq(socks, 1, i - 1) \o SubSeq(socks, i + 1, Len(socks))

\* mutation: the readyState test is lost
WsSendWhateverState(ws, type, data) == <<[to |-> ws.id, type |-> type, data |-> data]>>

\* wsSend: the envelope goes out only on an open socket
WsSend(ws, type, data) ==
    IF ws.readyState = READY_STATE_OPEN
    THEN <<[to |-> ws.id, type |-> type, data |-> data]>>
    ELSE <<>>

RECURSIVE SendEach(_, _, _)
SendEach(clients, type, data) ==
    IF clients = <<>> THEN <<>>
    ELSE WsSend(Head(clients), type, data) \o SendEach(Tail(clients), type, data)

\* mutation: the `client !== ws` test is lost
WsBroadcastToAll(socks, ws, type, data) == SendEach(GetWebSockets(socks), type, data)

\* wsBroadcast: every listed socket other than ws, through wsSend
WsBroadcast(socks, ws, type, data) ==
    SendEach(SelectSeq(GetWebSockets(socks), LAMBDA c : c.id # ws.id), type, data)

\* the DEVICE_LIST loop: the deviceMeta of every other listed socket that has one
DeviceListFor(socks, ws) ==
    LET others == SelectSeq(GetWebSockets(socks),
                            LAMBDA c : c.id # ws.id /\ c.deviceMeta # Undefined)
    IN  [k \in 1..Len(others) |-> others[k].deviceMeta]

\* {...msg, sender_id: senderDeviceId}: a new object with the stamp
StampSender(msg, senderDeviceId) == [msg EXCEPT !.sender_id = senderDeviceId]

\* msg.sender_id = getTags(ws)[0]: the stamp becomes a property of the
\* parsed payload itself
AssignSender(msg, senderDeviceId) == [msg EXCEPT !.sender_id = senderDeviceId]

\* JSON.stringify of the payload in wsSend: of an array only the elements
\* are written, a property set on it is not
Stringify(msg) ==
    IF msg.json = "array" THEN [msg EXCEPT !.sender_id = "absent"] ELSE msg

\* mutation: without a socket under the tag the frame goes to the first
\* socket of the registry
ForwardToSomeone(socks, receiver_id, type, data) ==
    LET receiverWs == GetWebSocketsByTag(socks, receiver_id)
    IN  IF Len(receiverWs) > 0 THEN WsSend(receiverWs[1], type, data)
        ELSE IF Len(socks) > 0 THEN WsSend(socks[1], type, data) ELSE <<>>

\* the receiver of a point-to-point frame: the first socket carrying the tag
ForwardTo(socks, receiver_id, type, data) ==
    LET receiverWs == GetWebSocketsByTag(socks, receiver_id)
    IN  IF Len(receiverWs) > 0 THEN WsSend(receiverWs[1], type, data) ELSE <<>>

\* mutation: the token is left in the map
DeleteTokenKept(toks, token) == toks

\* this.tokens.delete(token)
DeleteToken(toks, token) == [t \in DOMAIN toks \ {token} |-> toks[t]]

\* the row bound into INSERT INTO transfers (... content_text)
TextRow(userId, senderDeviceId, textMsg) ==
    [send_user_id |-> userId, send_device_id |-> senderDeviceId,
     receive_device_id |-> textMsg.receiver_id,
     content_text |-> textMsg.content, file_id |-> "NULL"]

\* the row bound into INSERT INTO transfers (... file_id)
FileRow(userId, senderDeviceId, fileMsg) ==
    [send_user_id |-> userId, send_device_id |-> senderDeviceId,
     receive_device_id |-> fileMsg.receiver_id,
     content_text |-> "NULL", file_id |-> fileMsg.storage_key]

\* mutation: the file row is written whether or not a key came
HasStorageKeyAlways(fileMsg) == TRUE

\* if (fileMsg.storage_key)
HasStorageKey(fileMsg) == fileMsg.storage_key # "absent"

\* mutation: the refreshed attachment is never serialized back
RefreshLost(ws, t) == ws

\* attachment.lastPing = Date.now(); ws.serializeAttachment(attachment)
Refresh(ws, t) == [ws EXCEPT !.lastPing = t]

\* now - (attachment?.lastPing ?? 0) > HEARTBEAT_TIMEOUT_MS
TimedOut(t, lastPing) == t - lastPing > HEARTBEAT_TIMEOUT_MS

---------------------------------------------------------------------------
Init ==
    /\ tokens = [t \in {} |-> Undefined]
    /\ nextToken = 1
    /\ sockets = <<>>
    /\ nextWs = 1
    /\ alarm = NoAlarm
    /\ now = 0
    /\ transfers = <<>>
    /\ accepted = [t \in 1..MaxTokens |-> 0]
    /\ issuedAt = [t \in {} |-> 0]
    /\ caller = NoCaller
    /\ users = {}
    /\ invitation_codes = (InvitationCode :> [max_uses |-> 1, use_count |-> 0])
    /\ registrations = [r \in 1..MaxRegistrations |-> NoRegistration]
    /\ ev = NoEvent
    /\ sent = <<>>

---------------------------------------------------------------------------
(* POST /wstoken *)
WsTokenHandler(deviceMeta) ==
    /\ ev = NoEvent
    /\ nextToken <= MaxTokens
    /\ tokens' = (nextToken :> deviceMeta) @@ tokens
    /\ nextToken' = nextToken + 1
    /\ ev' = [Event("wstoken", 0, "", deviceMeta) EXCEPT !.token = nextToken, !.status = 200]
    /\ sent' = <<>>
    /\ issuedAt' = (nextToken :> now) @@ issuedAt
    /\ UNCHANGED <<sockets, nextWs, alarm, now, transfers, accepted>>

\* mutation: the sweep is armed before the token is looked at
WsHandlerArmsFirst(token) ==
    /\ ev = NoEvent
    /\ alarm' = IF alarm = NoAlarm THEN now + ALARM_INTERVAL_MS ELSE alarm
    /\ IF token = 0 THEN
           /\ ev' = [Event("ws", 0, "", Undefined) EXCEPT !.token = token, !.status = 400]
           /\ sent' = <<>>
           /\ UNCHANGED <<tokens, nextToken, sockets, nextWs, now, transfers, accepted, issuedAt>>
       ELSE IF token \notin DOMAIN tokens THEN
           /\ ev' = [Event("ws", 0, "", Undefined) EXCEPT !.token = token, !.status = 401]
           /\ sent' = <<>>
           /\ UNCHANGED <<tokens, nextToken, sockets, nextWs, now, transfers, accepted, issuedAt>>
       ELSE
           /\ nextWs <= MaxSockets
           /\ LET deviceMeta == tokens[token]
                  server == AcceptWebSocket(nextWs, deviceMeta, now)
              IN  /\ tokens' = DeleteToken(tokens, token)
                  /\ sockets' = Append(sockets, server)
                  /\ nextWs' = nextWs + 1
                  /\ sent' = WsBroadcast(sockets', server, "device_online", deviceMeta)
                  /\ ev' = [Event("ws", server.id, "", deviceMeta)
                              EXCEPT !.token = token, !.status = 101,
                                     !.age = now - issuedAt[token]]
           /\ accepted' = [accepted EXCEPT ![token] = @ + 1]
           /\ issuedAt' = [t \in DOMAIN tokens' |-> issuedAt[t]]
           /\ UNCHANGED <<nextToken, now, transfers>>

(* GET /ws?token=...; token 0 stands for a request without the parameter *)
WsHandler(token) ==
    /\ ev = NoEvent
    /\ IF token = 0 THEN
           /\ ev' = [Event("ws", 0, "", Undefined) EXCEPT !.token = token, !.status = 400]
           /\ sent' = <<>>
           /\ UNCHANGED <<tokens, nextToken, sockets, nextWs, alarm, now, transfers, accepted, issuedAt>>
       ELSE IF token \notin DOMAIN tokens THEN
           /\ ev' = [Event("ws", 0, "", Undefined) EXCEPT !.token = token, !.status = 401]
           /\ sent' = <<>>
           /\ UNCHANGED <<tokens, nextToken, sockets, nextWs, alarm, now, transfers, accepted, issuedAt>>
       ELSE
           /\ nextWs <= MaxSockets
           /\ LET deviceMeta == tokens[token]
                  server == AcceptWebSocket(nextWs, deviceMeta, now)
              IN  /\ tokens' = DeleteToken(tokens, token)
                  /\ sockets' = Append(sockets, server)
                  /\ nextWs' = nextWs + 1
                  /\ sent' = WsBroadcast(sockets', server, "device_online", deviceMeta)
                  /\ alarm' = IF alarm = NoAlarm THEN now + ALARM_INTERVAL_MS ELSE alarm
                  /\ ev' = [Event("ws", server.id, "", deviceMeta)
                              EXCEPT !.token = token, !.status = 101,
                                     !.age = now - issuedAt[token]]
           /\ accepted' = [accepted EXCEPT ![token] = @ + 1]
           /\ issuedAt' = [t \in DOMAIN tokens' |-> issuedAt[t]]
           /\ UNCHANGED <<nextToken, now, transfers>>

---------------------------------------------------------------------------
(* webSocketMessage(ws, message), one action per branch of the dispatch.   *)
(* i is the position of ws in the registry.  The runtime keeps delivering  *)
(* the frames of a socket the server has closed until the peer's close     *)
(* arrives, so a CLOSING socket can still be the sender.                   *)

\* case PING
Ping(i) ==
    /\ ev = NoEvent
    /\ i \in 1..Len(sockets)
    /\ LET ws == sockets[i]
           refreshed == Refresh(ws, now)
       IN  /\ sockets' = [sockets EXCEPT ![i] = [refreshed EXCEPT !.signalAt = now]]
           /\ sent' = WsSend(refreshed, "pong", "null")
           /\ ev' = [Event("message", ws.id, "ping", Undefined)
                       EXCEPT !.readyState = ws.readyState]
    /\ UNCHANGED <<tokens, nextToken, nextWs, alarm, now, transfers, accepted, issuedAt, caller, dbVars>>

\* case DEVICE_LIST
DeviceList(i) ==
    /\ ev = NoEvent
    /\ i \in 1..Len(sockets)
    /\ LET ws == sockets[i]
       IN  /\ sent' = WsSend(ws, "device_list", DeviceListFor(sockets, ws))
           /\ ev' = [Event("message", ws.id, "device_list", Undefined)
                       EXCEPT !.readyState = ws.readyState]
    /\ UNCHANGED <<tokens, nextToken, sockets, nextWs, alarm, now, transfers, accepted, issuedAt, caller, dbVars>>

\* mutation: a device_update counts as a sign of life as well
DeviceUpdateRefreshes(i, data) ==
    /\ ev = NoEvent
    /\ i \in 1..Len(sockets)
    /\ LET ws == sockets[i]
       IN  /\ sockets' = [sockets EXCEPT ![i].deviceMeta = data, ![i].lastPing = now]
           /\ sent' = WsBroadcast(sockets', ws, "device_update", data)
           /\ ev' = [Event("message", ws.id, "device_update", data)
                       EXCEPT !.readyState = ws.readyState]
    /\ UNCHANGED <<tokens, nextToken, nextWs, alarm, now, transfers, accepted, issuedAt, caller, dbVars>>

\* case DEVICE_UPDATE; data is whatever the frame carried, Undefined included
DeviceUpdate(i, data) ==
    /\ ev = NoEvent
    /\ i \in 1..Len(sockets)
    /\ LET ws == sockets[i]
       IN  /\ sockets' = [sockets EXCEPT ![i].deviceMeta = data]
           /\ sent' = WsBroadcast(sockets', ws, "device_update", data)
           /\ ev' = [Event("message", ws.id, "device_update", data)
                       EXCEPT !.readyState = ws.readyState]
    /\ UNCHANGED <<tokens, nextToken, nextWs, alarm, now, transfers, accepted, issuedAt, caller, dbVars>>

\* mutation: the row is written only when the text was forwarded
SendTextStoredIfForwarded(i, textMsg, dbOk) ==
    /\ ev = NoEvent
    /\ i \in 1..Len(sockets)
    /\ dbOk => Len(transfers) < MaxTransfers
    /\ LET ws == sockets[i]
           senderDeviceId == GetTag(ws)
       IN  /\ sent' = ForwardTo(sockets, textMsg.receiver_id, "send_text",
                                StampSender(textMsg, senderDeviceId))
           /\ transfers' = IF dbOk /\ sent' # <<>>
                           THEN Append(transfers, TextRow(UserId, senderDeviceId, textMsg))
                           ELSE transfers
           /\ ev' = [Event("message", ws.id, "send_text", textMsg)
                       EXCEPT !.readyState = ws.readyState, !.dbOk = dbOk]
    /\ UNCHANGED <<tokens, nextToken, sockets, nextWs, alarm, now, accepted, issuedAt, caller, dbVars>>

\* case SEND_TEXT; dbOk is the outcome of the INSERT (a rejected promise is
\* caught by the handler's catch)
SendText(i, textMsg, dbOk) ==
    /\ ev = NoEvent
    /\ i \in 1..Len(sockets)
    /\ dbOk => Len(transfers) < MaxTransfers
    /\ LET ws == sockets[i]
           senderDeviceId == GetTag(ws)
       IN  /\ sent' = ForwardTo(sockets, textMsg.receiver_id, "send_text",
                                StampSender(textMsg, senderDeviceId))
           /\ transfers' = IF dbOk
                           THEN Append(transfers, TextRow(UserId, senderDeviceId, textMsg))
                           ELSE transfers
           /\ ev' = [Event("message", ws.id, "send_text", textMsg)
                       EXCEPT !.readyState = ws.readyState, !.dbOk = dbOk]
    /\ UNCHANGED <<tokens, nextToken, sockets, nextWs, alarm, now, accepted, issuedAt, caller, dbVars>>

\* mutation: the row is written first, and a failing write ends the handler
\* before the forward
SendFileWriteFirst(i, fileMsg, dbOk) ==
    /\ ev = NoEvent
    /\ i \in 1..Len(sockets)
    /\ (dbOk /\ HasStorageKey(fileMsg)) => Len(transfers) < MaxTransfers
    /\ LET ws == sockets[i]
           senderDeviceId == GetTag(ws)
       IN  /\ transfers' = IF HasStorageKey(fileMsg) /\ dbOk
                           THEN Append(transfers, FileRow(UserId, senderDeviceId, fileMsg))
                           ELSE transfers
           /\ sent' = IF HasStorageKey(fileMsg) /\ ~dbOk THEN <<>>
                      ELSE ForwardTo(sockets, fileMsg.receiver_id, "send_file",
                                     StampSender(fileMsg, senderDeviceId))
           /\ ev' = [Event("message", ws.id, "send_file", fileMsg)
                       EXCEPT !.readyState = ws.readyState, !.dbOk = dbOk]
    /\ UNCHANGED <<tokens, nextToken, sockets, nextWs, alarm, now, accepted, issuedAt, caller, dbVars>>

\* case SEND_FILE
SendFile(i, fileMsg, dbOk) ==
    /\ ev = NoEvent
    /\ i \in 1..Len(sockets)
    /\ (dbOk /\ HasStorageKey(fileMsg)) => Len(transfers) < MaxTransfers
    /\ LET ws == sockets[i]
           senderDeviceId == GetTag(ws)
       IN  /\ sent' = ForwardTo(sockets, fileMsg.receiver_id, "send_file",
                                StampSender(fileMsg, senderDeviceId))
           /\ transfers' = IF HasStorageKey(fileMsg) /\ dbOk
                           THEN Append(transfers, FileRow(UserId, senderDeviceId, fileMsg))
                           ELSE transfers
           /\ ev' = [Event("message", ws.id, "send_file", fileMsg)
                       EXCEPT !.readyState = ws.readyState, !.dbOk = dbOk]
    /\ UNCHANGED <<tokens, nextToken, sockets, nextWs, alarm, now, accepted, issuedAt, caller, dbVars>>

\* default: any other type, forwarded as it came
Forward(i, type, msg) ==
    /\ ev = NoEvent
    /\ i \in 1..Len(sockets)
    /\ LET ws == sockets[i]
       IN  /\ sent' = ForwardTo(sockets, msg.receiver_id, type,
                                Stringify(AssignSender(msg, GetTag(ws))))
           /\ ev' = [Event("message", ws.id, type, msg)
                       EXCEPT !.readyState = ws.readyState]
    /\ UNCHANGED <<tokens, nextToken, sockets, nextWs, alarm, now, transfers, accepted, issuedAt, caller, dbVars>>

\* a frame the handler drops: a binary frame (the early return), text that
\* is not JSON, or a point-to-point frame without data (reading receiver_id
\* of undefined throws); the catch logs and nothing else happens
Discard(i, type) ==
    /\ ev = NoEvent
    /\ i \in 1..Len(sockets)
    /\ sent' = <<>>
    /\ ev' = [Event("discard", sockets[i].id, type, Undefined)
                EXCEPT !.readyState = sockets[i].readyState]
    /\ UNCHANGED <<tokens, nextToken, sockets, nextWs, alarm, now, transfers, accepted, issuedAt, caller, dbVars>>

---------------------------------------------------------------------------
\* mutation: a socket the server closed itself is dropped without a word
WebSocketCloseQuietAfterTimeout(i) ==
    /\ ev = NoEvent
    /\ i \in 1..Len(sockets)
    /\ LET ws == sockets[i]
           deviceId == GetTag(ws)
       IN  /\ sent' = IF ws.readyState = READY_STATE_OPEN
                      THEN WsBroadcast(sockets, ws, "device_offline", [deviceId |-> deviceId])
                      ELSE <<>>
           /\ ev' = [Event("close", ws.id, "", Undefined)
                       EXCEPT !.readyState = ws.readyState, !.tag = ws.tag]
    /\ sockets' = DropSocket(sockets, i)
    /\ UNCHANGED <<tokens, nextToken, nextWs, alarm, now, transfers, accepted, issuedAt, caller, dbVars>>

(* webSocketClose(ws): the peer's close (or its answer to the server's     *)
(* close) has arrived; after the handler the runtime drops the socket      *)
WebSocketClose(i) ==
    /\ ev = NoEvent
    /\ i \in 1..Len(sockets)
    /\ LET ws == sockets[i]
           deviceId == GetTag(ws)
       IN  /\ sent' = IF deviceId # ""
                      THEN WsBroadcast(sockets, ws, "device_offline", [deviceId |-> deviceId])
                      ELSE <<>>
           /\ ev' = [Event("close", ws.id, "", Undefined)
                       EXCEPT !.readyState = ws.readyState, !.tag = ws.tag]
    /\ sockets' = DropSocket(sockets, i)
    /\ UNCHANGED <<tokens, nextToken, nextWs, alarm, now, transfers, accepted, issuedAt, caller, dbVars>>

(* webSocketError(ws, error): logs *)
WebSocketError(i) ==
    /\ ev = NoEvent
    /\ i \in 1..Len(sockets)
    /\ sent' = <<>>
    /\ ev' = [Event("error", sockets[i].id, "", Undefined)
                EXCEPT !.readyState = sockets[i].readyState]
    /\ UNCHANGED <<tokens, nextToken, sockets, nextWs, alarm, now, transfers, accepted, issuedAt, caller, dbVars>>

---------------------------------------------------------------------------
(* The heartbeat sweep *)

\* ws.close(1000, 'Heartbeat timeout') on every open socket that timed out
Sweep(socks, t) ==
    [k \in 1..Len(socks) |->
        IF socks[k].readyState = READY_STATE_OPEN /\ TimedOut(t, socks[k].lastPing)
        THEN [socks[k] EXCEPT !.readyState = READY_STATE_CLOSING]
        ELSE socks[k]]

\* mutation: the sweep never re-arms
RearmNever(socks, t) == NoAlarm

\* mutation: the sweep re-arms whatever it found
RearmAlways(socks, t) == t + ALARM_INTERVAL_MS

\* mutation: the sweep re-arms only while a listed socket is still open
RearmIfOpen(socks, t) ==
    IF \E k \in 1..Len(socks) : socks[k].readyState = READY_STATE_OPEN
    THEN t + ALARM_INTERVAL_MS ELSE NoAlarm

\* the tail of alarm(): re-arm while any socket is listed
Rearm(socks, t) ==
    IF Len(GetWebSockets(socks)) > 0 THEN t + ALARM_INTERVAL_MS ELSE NoAlarm

\* alarm(): the runtime runs it once the armed time has come, at that time or
\* later, and the alarm is no longer armed while it runs
Alarm ==
    /\ ev = NoEvent
    /\ alarm # NoAlarm
    /\ now >= alarm
    /\ sockets' = Sweep(sockets, now)
    /\ alarm' = Rearm(sockets', now)
    /\ sent' = <<>>
    /\ ev' = Event("alarm", 0, "", Undefined)
    /\ UNCHANGED <<tokens, nextToken, nextWs, now, transfers, accepted, issuedAt, caller, dbVars>>

\* mutation: tag aside, what a socket carried is gone after a reconstruction
RehydrateWithoutAttachment(socks) ==
    [k \in 1..Len(socks) |-> [socks[k] EXCEPT !.lastPing = 0, !.deviceMeta = Undefined]]

\* the registry a reconstructed coordinator finds: the runtime holds the
\* accepted sockets with their tags and serialized attachments
Rehydrate(socks) == socks

\* the coordinator is dropped from memory while idle, its sockets staying
\* open, and constructed anew for the next event: the constructor makes an
\* empty token map; sockets, attachments and the alarm are the runtime's
Teardown ==
    /\ ev = NoEvent
    /\ tokens' = [t \in {} |-> Undefined]
    /\ issuedAt' = [t \in {} |-> 0]
    /\ sockets' = Rehydrate(sockets)
    /\ sent' = <<>>
    /\ ev' = Event("constructor", 0, "", Undefined)
    /\ UNCHANGED <<nextToken, nextWs, alarm, now, transfers, accepted, caller, dbVars>>

\* time passes by d between two events
Advance(d) ==
    /\ ev = NoEvent
    /\ now + d <= MaxNow
    /\ now' = now + d
    /\ UNCHANGED <<tokens, nextToken, sockets, nextWs, alarm, transfers, ev, sent, accepted, issuedAt, caller, dbVars>>

\* the handler returns: its envelopes are on the wire, the next event may come
Return ==
    /\ ev # NoEvent
    /\ ev' = NoEvent
    /\ sent' = <<>>
    /\ UNCHANGED <<tokens, nextToken, sockets, nextWs, alarm, now, transfers, accepted, issuedAt, caller, dbVars>>

---------------------------------------------------------------------------
(* The worker's routes in front of the coordinators (routes/ws.ts)         *)

\* env.DO.idFromName(name): one coordinator per name
IdFromName(name) == [name |-> name]

\* the route answers by itself, no coordinator is asked
RouteRejects(sub, status) ==
    /\ ev = NoEvent
    /\ ev' = [Event("route", 0, "", Undefined) EXCEPT !.status = status]
    /\ sent' = <<>>
    /\ caller' = sub
    /\ UNCHANGED <<tokens, nextToken, sockets, nextWs, alarm, now, transfers, accepted, issuedAt,
                   dbVars>>

\* the request is handed to the coordinator of another name: nothing
\* happens in this one
RoutedElsewhere(sub) ==
    /\ ev = NoEvent
    /\ ev' = Event("elsewhere", 0, "", Undefined)
    /\ sent' = <<>>
    /\ caller' = sub
    /\ UNCHANGED <<tokens, nextToken, sockets, nextWs, alarm, now, transfers, accepted, issuedAt,
                   dbVars>>

(* POST /user/wstoken?userId=..., behind authMiddleware and extractUser:   *)
(* sub is the account of the verified JWT, userId the query parameter      *)
UserWsToken(sub, userId, deviceMeta) ==
    IF userId = "absent" THEN RouteRejects(sub, 400)
    ELSE IF IdFromName(userId) = IdFromName(UserId)
         THEN WsTokenHandler(deviceMeta) /\ caller' = sub /\ UNCHANGED dbVars
         ELSE RoutedElsewhere(sub)

(* GET /ws?userId=...&token=..., a public route: token 0 stands for a      *)
(* request without the token parameter                                     *)
WsRoute(userId, token) ==
    IF userId = "absent" \/ token = 0 THEN RouteRejects(Anonymous, 400)
    ELSE IF IdFromName(userId) = IdFromName(UserId)
         THEN WsHandler(token) /\ caller' = Anonymous /\ UNCHANGED dbVars
         ELSE RoutedElsewhere(Anonymous)

---------------------------------------------------------------------------
(* POST /user/register (routes/ws.ts 34-94).  The handler awaits each      *)
(* statement it sends to the database; requests are served concurrently,   *)
(* so the statements of two requests interleave.  One action per           *)
(* statement, with the handler's code up to the next statement.            *)

doVars == <<tokens, nextToken, sockets, nextWs, alarm, now, transfers, accepted, issuedAt,
            caller, ev, sent>>

Finish(r, status) ==
    registrations' = [registrations EXCEPT ![r].pc = "done", ![r].status = status]

\* body validation, then SELECT ... FROM invitation_codes WHERE code = ?
RegisterSelectCode(r, body) ==
    /\ registrations[r].pc = "idle"
    /\ IF body.username = "absent" THEN Finish(r, 400)
       ELSE IF body.invitation_code \notin DOMAIN invitation_codes
            THEN registrations' = [registrations EXCEPT
                     ![r].pc = "done", ![r].status = 400,
                     ![r].username = body.username,
                     ![r].invitation_code = body.invitation_code]
            ELSE registrations' = [registrations EXCEPT
                     ![r].pc = "code_read",
                     ![r].username = body.username,
                     ![r].invitation_code = body.invitation_code,
                     ![r].use_count = invitation_codes[body.invitation_code].use_count,
                     ![r].max_uses = invitation_codes[body.invitation_code].max_uses]
    /\ UNCHANGED <<users, invitation_codes, doVars>>

\* if (inviteCode.use_count >= inviteCode.max_uses) on the row read before,
\* then SELECT id FROM users WHERE username = ?
RegisterSelectUser(r) ==
    /\ registrations[r].pc = "code_read"
    /\ LET inviteCode == registrations[r] IN
       IF inviteCode.use_count >= inviteCode.max_uses THEN Finish(r, 400)
       ELSE registrations' = [registrations EXCEPT
                ![r].pc = "user_read",
                ![r].existing = \E u \in users : u.username = registrations[r].username]
    /\ UNCHANGED <<users, invitation_codes, doVars>>

\* if (existing) -> 409; else INSERT INTO users, which the UNIQUE constraint
\* on username refuses when another request has inserted the name meanwhile
\* (the exception ends the handler with 500)
RegisterInsertUser(r) ==
    /\ registrations[r].pc = "user_read"
    /\ IF registrations[r].existing
       THEN Finish(r, 409) /\ UNCHANGED users
       ELSE IF \E u \in users : u.username = registrations[r].username
            THEN Finish(r, 500) /\ UNCHANGED users
            ELSE /\ users' = users \cup {[username |-> registrations[r].username,
                                           invited_by |-> registrations[r].invitation_code]}
                 /\ registrations' = [registrations EXCEPT ![r].pc = "inserted"]
    /\ UNCHANGED <<invitation_codes, doVars>>

\* UPDATE invitation_codes SET use_count = use_count + 1 WHERE code = ?
RegisterIncrement(r) ==
    /\ registrations[r].pc = "inserted"
    /\ invitation_codes' = [invitation_codes EXCEPT
                               ![registrations[r].invitation_code].use_count = @ + 1]
    /\ Finish(r, 200)
    /\ UNCHANGED <<users, doVars>>

---------------------------------------------------------------------------
(* Specifications.  Every one runs the same handlers; they differ in the   *)
(* inputs the environment offers.                                          *)

Handshake(metas) ==
    \/ \E deviceMeta \in metas : WsTokenHandler(deviceMeta) /\ UNCHANGED <<caller, dbVars>>
    \/ \E token \in 0..MaxTokens : WsHandler(token) /\ UNCHANGED <<caller, dbVars>>

Closes ==
    \/ \E i \in 1..MaxSockets : WebSocketClose(i)
    \/ \E i \in 1..MaxSockets : WebSocketError(i)

\* the relay: every frame type between open sockets, the database down
Next ==
    \/ Handshake(DeviceMetas)
    \/ \E i \in 1..MaxSockets : Ping(i)
    \/ \E i \in 1..MaxSockets : DeviceList(i)
    \/ \E i \in 1..MaxSockets, data \in UpdateData : DeviceUpdate(i, data)
    \/ \E i \in 1..MaxSockets, textMsg \in TextMessages : SendText(i, textMsg, FALSE)
    \/ \E i \in 1..MaxSockets, fileMsg \in FileMessages : SendFile(i, fileMsg, FALSE)
    \/ \E i \in 1..MaxSockets, type \in DefaultTypes, msg \in ForwardableMessages :
          Forward(i, type, msg)
    \/ \E i \in 1..MaxSockets, type \in {"binary", "send_text"} : Discard(i, type)
    \/ Closes
    \/ Return

Spec == Init /\ [][Next]_vars

\* routing among sockets some of which the sweep has closed: silences of
\* SilenceMs, pings, text frames
NextStale ==
    \/ Handshake(DeviceMetas)
    \/ \E i \in 1..MaxSockets : Ping(i)
    \/ \E i \in 1..MaxSockets, textMsg \in TextMessages : SendText(i, textMsg, FALSE)
    \/ \E i \in 1..MaxSockets : WebSocketClose(i)
    \/ Alarm
    \/ Advance(SilenceMs)
    \/ Return

SpecStale == Init /\ [][NextStale]_vars

\* the transfer recorder: text and file frames with the database up or down
NextDb ==
    \/ Handshake(DeviceMetas)
    \/ \E i \in 1..MaxSockets, textMsg \in TextMessages, dbOk \in BOOLEAN :
          SendText(i, textMsg, dbOk)
    \/ \E i \in 1..MaxSockets, fileMsg \in FileMessages, dbOk \in BOOLEAN :
          SendFile(i, fileMsg, dbOk)
    \/ Return

SpecDb == Init /\ [][NextDb]_vars

\* the heartbeat monitor: the connections of one device, pings and sweeps
\* on a clock of TickMs
NextHb ==
    \/ Handshake({[id |-> "dA", name |-> "n1", emoji |-> "e"]})
    \/ \E i \in 1..MaxSockets : Ping(i)
    \/ \E i \in 1..MaxSockets : WebSocketClose(i)
    \/ Alarm
    \/ Advance(TickMs)
    \/ Return

SpecHb == Init /\ [][NextHb]_vars

\* the sweep and its aftermath: devices that fall silent for SilenceMs,
\* others that ping or register late, closes arriving
NextSweep ==
    \/ Handshake(DeviceMetas)
    \/ \E i \in 1..MaxSockets : Ping(i)
    \/ \E i \in 1..MaxSockets : WebSocketClose(i)
    \/ Alarm
    \/ Advance(SilenceMs)
    \/ Return

SpecSweep == Init /\ [][NextSweep]_vars

\* token issue with well-formed and malformed bodies, and what becomes of
\* the tokens
NextIssue ==
    \/ Handshake(DeviceMetas \cup MalformedMetas)
    \/ \E i \in 1..MaxSockets : DeviceList(i)
    \/ \E i \in 1..MaxSockets : WebSocketClose(i)
    \/ Return

SpecIssue == Init /\ [][NextIssue]_vars

\* hibernation: the coordinator is torn down and reconstructed between
\* events while devices register, ping, fall silent and are swept
NextTeardown ==
    \/ Handshake(DeviceMetas)
    \/ \E i \in 1..MaxSockets : Ping(i)
    \/ \E i \in 1..MaxSockets : WebSocketClose(i)
    \/ Alarm
    \/ Advance(SilenceMs)
    \/ Teardown
    \/ Return

SpecTeardown == Init /\ [][NextTeardown]_vars

\* malformed frames: binary, not JSON, JSON without data or without type
NextMalformed ==
    \/ Handshake(DeviceMetas)
    \/ \E i \in 1..MaxSockets, type \in {"binary", "not_json", "send_text", "rtc_offer"} :
          Discard(i, type)
    \/ \E i \in 1..MaxSockets : DeviceUpdate(i, Undefined)
    \/ \E i \in 1..MaxSockets, msg \in ForwardableMessages : Forward(i, NoType, msg)
    \/ \E i \in 1..MaxSockets : WebSocketClose(i)
    \/ Return

SpecMalformed == Init /\ [][NextMalformed]_vars

\* frames of every kind from sockets of different ages: the clock moves
\* between registrations, pings, updates, texts and signalling frames
FrameUpdates == {[id |-> "dA", name |-> "n2", emoji |-> "e"]}
FrameTexts == [receiver_id : {"dA"}, sender_id : {"absent"}, content : {"hi"}]
FrameSignals == [json : {"object"}, receiver_id : {"dB"}, sender_id : {"absent"},
                 body : {"sdp"}]

NextFrames ==
    \/ Handshake(DeviceMetas)
    \/ \E i \in 1..MaxSockets : Ping(i)
    \/ \E i \in 1..MaxSockets : DeviceList(i)
    \/ \E i \in 1..MaxSockets, data \in FrameUpdates : DeviceUpdate(i, data)
    \/ \E i \in 1..MaxSockets, textMsg \in FrameTexts : SendText(i, textMsg, FALSE)
    \/ \E i \in 1..MaxSockets, msg \in FrameSignals : Forward(i, "rtc_offer", msg)
    \/ \E i \in 1..MaxSockets : Discard(i, "binary")
    \/ Advance(SilenceMs)
    \/ Return

SpecFrames == Init /\ [][NextFrames]_vars

\* types of MESSAGE_TYPE the dispatch has no case for although the
\* coordinator sends them itself; a frame of such a type takes `default`
AnnouncementTypes == {"device_online", "device_offline", "pong"}

\* clients sending frames typed like the coordinator's own envelopes
NextSpoof ==
    \/ Handshake(DeviceMetas)
    \/ \E i \in 1..MaxSockets : Ping(i)
    \/ \E i \in 1..MaxSockets : DeviceList(i)
    \/ \E i \in 1..MaxSockets, type \in AnnouncementTypes, msg \in FrameSignals :
          Forward(i, type, msg)
    \/ \E i \in 1..MaxSockets : WebSocketClose(i)
    \/ Return

SpecSpoof == Init /\ [][NextSpoof]_vars

\* requests as they come through the worker's routes, from the owner of
\* this coordinator and from another account
NextRoute ==
    \/ \E sub \in Users, userId \in QueryUserIds, deviceMeta \in DeviceMetas :
          UserWsToken(sub, userId, deviceMeta)
    \/ \E userId \in QueryUserIds, token \in 0..MaxTokens : WsRoute(userId, token)
    \/ \E i \in 1..MaxSockets : WebSocketClose(i)
    \/ Return

SpecRoute == Init /\ [][NextRoute]_vars

\* POST /file: the upload draws a fresh file id and stores the blob under
\* `${fileId}/${uploadFile.name}`
StorageKey(fileId, name) == fileId \o "/" \o name

\* the files row the upload inserts and returns to the client
FileRecord(fileId, name) ==
    [id |-> fileId, user_id |-> UserId, file_name |-> name,
     storage_key |-> StorageKey(fileId, name)]

\* the files table: what this user's uploads have inserted
FileIds == {"f1", "f2"}
FileNames == {"a.txt"}
Files == {FileRecord(fileId, name) : fileId \in FileIds, name \in FileNames}

\* send_file payloads announcing an uploaded file: storage_key as the
\* upload's response gave it
UploadMessages ==
    [receiver_id : DeviceIds, sender_id : {"absent"}, file_name : FileNames,
     storage_key : {f.storage_key : f \in Files}]

\* devices announcing uploaded files, the database accepting or refusing
\* the INSERT
NextFiles ==
    \/ Handshake(DeviceMetas)
    \/ \E i \in 1..MaxSockets, fileMsg \in UploadMessages, dbOk \in BOOLEAN :
          SendFile(i, fileMsg, dbOk)
    \/ \E i \in 1..MaxSockets : WebSocketClose(i)
    \/ Return

SpecFiles == Init /\ [][NextFiles]_vars

\* registrations presenting invitation codes, served concurrently
NextRegister ==
    \/ \E r \in 1..MaxRegistrations, body \in RegisterBodies : RegisterSelectCode(r, body)
    \/ \E r \in 1..MaxRegistrations : RegisterSelectUser(r)
    \/ \E r \in 1..MaxRegistrations : RegisterInsertUser(r)
    \/ \E r \in 1..MaxRegistrations : RegisterIncrement(r)

SpecRegister == Init /\ [][NextRegister]_vars

\* the runtime delivers what is pending: a handler that has run returns, and
\* the close of a socket the server has closed arrives however many other
\* events are handled in between
CloseArrives(id) ==
    \E i \in 1..MaxSockets :
        /\ i <= Len(sockets)
        /\ sockets[i].id = id
        /\ sockets[i].readyState = READY_STATE_CLOSING
        /\ WebSocketClose(i)

FairSpecSweep ==
    /\ SpecSweep
    /\ WF_vars(Return)
    /\ \A id \in 1..MaxSockets : SF_vars(CloseArrives(id))

\* the monitor between idle and armed: one device connecting and leaving,
\* sweeps on a clock of TickMs
NextIdle ==
    \/ Handshake({[id |-> "dA", name |-> "n1", emoji |-> "e"]})
    \/ \E i \in 1..MaxSockets : WebSocketClose(i)
    \/ Alarm
    \/ Advance(TickMs)
    \/ Return

SpecIdle == Init /\ [][NextIdle]_vars

\* a handler that has run returns; time passes however many events are
\* handled; the runtime runs an alarm that is due
FairSpecIdle ==
    /\ SpecIdle
    /\ WF_vars(Return)
    /\ SF_vars(Advance(TickMs))
    /\ SF_vars(Alarm)

---------------------------------------------------------------------------
(* Vocabulary of the properties *)

Registered == {sockets[k] : k \in 1..Len(sockets)}
Sock(id) == CHOOSE c \in Registered : c.id = id
IsRegistered(id) == \E c \in Registered : c.id = id
Tagged(tag) == {c \in Registered : c.tag = tag}
Targets == {sent[k].to : k \in 1..Len(sent)}
OpenIds == {c.id : c \in {o \in Registered : o.readyState = READY_STATE_OPEN}}
Occurrences(seq, x) == Cardinality({k \in 1..Len(seq) : seq[k] = x})

Handling(type) == ev.op = "message" /\ ev.type = type
PointToPoint == ev.op = "message" /\ ev.type \in {"send_text", "send_file"} \cup DefaultTypes
Upgrading == ev.op = "ws"

---------------------------------------------------------------------------
(* C1: each issued token leads to at most one accepted connection: an      *)
(* upgrade presenting an issued token is accepted unless that token value  *)
(* was accepted before, and then it is rejected.                           *)
C1_TokenSingleUse ==
    /\ \A t \in 1..MaxTokens : accepted[t] <= 1
    /\ (Upgrading /\ ev.status = 101) => accepted[ev.token] = 1
    /\ (Upgrading /\ ev.status = 401 /\ ev.token < nextToken) => accepted[ev.token] = 1

\* a second upgrade with a token already used has been turned away
C1_Witness ==
    /\ Upgrading /\ ev.status = 401
    /\ ev.token < nextToken /\ accepted[ev.token] = 1

---------------------------------------------------------------------------
(* C2: in every envelope forwarded point to point (send_text, send_file,   *)
(* rtc_* and the other forwarded types) data.sender_id is the registration *)
(* tag of the socket the frame came from, whatever the payload claimed.    *)
C2_SenderIsTag ==
    PointToPoint =>
        \A k \in 1..Len(sent) : sent[k].data.sender_id = Sock(ev.ws).tag

---------------------------------------------------------------------------
(* C3: a send_text with receiver_id = X reaches no socket with another     *)
(* tag and at most one socket; it reaches nobody when no socket is tagged  *)
(* X, and it reaches the socket tagged X when that socket is the only one  *)
(* so tagged and is open.                                                  *)
C3_TagIsolation ==
    Handling("send_text") =>
        LET X == ev.data.receiver_id IN
        /\ \A id \in Targets : Sock(id).tag = X
        /\ Len(sent) <= 1
        /\ Tagged(X) = {} => sent = <<>>
        /\ \A c \in Tagged(X) :
              (Tagged(X) = {c} /\ c.readyState = READY_STATE_OPEN) => Targets = {c.id}
        /\ \A k \in 1..Len(sent) : sent[k].type = "send_text"

\* three sockets are registered, one of them with another tag than X, and
\* the text has been delivered
C3_Witness ==
    /\ Handling("send_text") /\ Len(sent) = 1
    /\ Len(sockets) = 3
    /\ \E c \in Registered : c.tag # ev.data.receiver_id /\ c.id # ev.ws

---------------------------------------------------------------------------
(* C4: a send_text frame whose INSERT the database accepts appends exactly *)
(* one row: send_user_id the coordinator's name, send_device_id the        *)
(* sender's tag, receive_device_id and content_text from the payload;      *)
(* whether a socket tagged receiver_id is registered makes no difference.  *)
C4_TextRecorded ==
    [][(ev'.op = "message" /\ ev'.type = "send_text" /\ ev'.dbOk) =>
          transfers' = Append(transfers,
              [send_user_id |-> UserId,
               send_device_id |-> Sock(ev'.ws).tag,
               receive_device_id |-> ev'.data.receiver_id,
               content_text |-> ev'.data.content,
               file_id |-> "NULL"])]_vars

\* a text for a device with no socket: nothing forwarded, the row is there
C4_Witness ==
    /\ Handling("send_text") /\ ev.dbOk
    /\ Tagged(ev.data.receiver_id) = {} /\ sent = <<>>
    /\ Len(transfers) = 1 /\ transfers[1].receive_device_id = ev.data.receiver_id

---------------------------------------------------------------------------
---------------------------------------------------------------------------
(* C6: an open socket has a lastPing older than timeout + sweep interval   *)
(* only while a sweep armed for no later than lastPing + timeout +         *)
(* interval is overdue, still to be run by the runtime; once that sweep    *)
(* has run no such socket is open.                                         *)
C6_StaleClosedWithinBound ==
    \A c \in Registered :
        (c.readyState = READY_STATE_OPEN
            /\ now - c.lastPing > HEARTBEAT_TIMEOUT_MS + ALARM_INTERVAL_MS)
        => (alarm # NoAlarm
            /\ alarm <= c.lastPing + HEARTBEAT_TIMEOUT_MS + ALARM_INTERVAL_MS)

\* a sweep has just closed a socket silent for more than the timeout and no
\* more than timeout + interval
C6_Witness ==
    /\ ev.op = "alarm"
    /\ \E c \in Registered :
          /\ c.readyState = READY_STATE_CLOSING
          /\ now - c.signalAt > HEARTBEAT_TIMEOUT_MS
          /\ now - c.signalAt <= HEARTBEAT_TIMEOUT_MS + ALARM_INTERVAL_MS

---------------------------------------------------------------------------
(* C7: no step closes an open socket whose client registered or pinged     *)
(* within the last sweep interval; a client pinging once per interval is   *)
(* always in that position, so the sweep never closes it.                  *)
C7_PingingNeverClosed ==
    [][\A c \in Registered :
          (c.readyState = READY_STATE_OPEN /\ now - c.signalAt <= ALARM_INTERVAL_MS)
          => ~ \E k \in 1..Len(sockets') :
                  sockets'[k].id = c.id /\ sockets'[k].readyState = READY_STATE_CLOSING]_vars

\* a sweep has closed a younger socket and left open an older one that
\* pinged within the interval
C7_Witness ==
    /\ ev.op = "alarm"
    /\ \E c, d \in Registered :
          /\ c.id < d.id
          /\ c.readyState = READY_STATE_OPEN /\ now - c.signalAt <= ALARM_INTERVAL_MS
          /\ d.readyState = READY_STATE_CLOSING

---------------------------------------------------------------------------
(* C8: once the sweep has closed a socket, its close is eventually handled *)
(* by webSocketClose, which sends device_offline with the socket's tag to  *)
(* every socket open at that moment, the closed one excepted.              *)
OfflineAnnounced(id) ==
    /\ ev.op = "close" /\ ev.ws = id
    /\ Targets = OpenIds
    /\ Len(sent) = Cardinality(OpenIds)
    /\ \A k \in 1..Len(sent) :
          sent[k].type = "device_offline" /\ sent[k].data = [deviceId |-> ev.tag]

SweptAway(id) == \E c \in Registered : c.id = id /\ c.readyState = READY_STATE_CLOSING

---------------------------------------------------------------------------
(* C9: the device_list reply holds no entry for the requesting socket (it  *)
(* has at most one entry per other socket, and the requester's metadata    *)
(* appears in it no more often than other sockets carry it), and a         *)
(* broadcast (device_online on an upgrade, device_update, device_offline   *)
(* on a close) is never sent to the socket it originates from.             *)
Broadcasting ==
    \/ Upgrading /\ ev.status = 101
    \/ Handling("device_update")
    \/ ev.op = "close"

C9_SelfExcluded ==
    /\ (Handling("device_list") /\ sent # <<>>) =>
          LET me == Sock(ev.ws)
              list == sent[1].data
              others == {c \in Registered : c.id # me.id}
          IN  /\ Len(list) <= Cardinality(others)
              /\ Occurrences(list, me.deviceMeta)
                    <= Cardinality({c \in others : c.deviceMeta = me.deviceMeta})
    /\ Broadcasting => ev.ws \notin Targets

\* a device_update has been broadcast to the two other sockets
C9_Witness ==
    /\ Handling("device_update")
    /\ Len(sockets) = 3 /\ Cardinality(Targets) = 2 /\ ev.ws \notin Targets

---------------------------------------------------------------------------
(* C10: the reply to device_list goes to the requester alone and holds the *)
(* stored metadata of every other listed socket, one entry per socket.     *)
C10_DeviceListComplete ==
    (Handling("device_list") /\ ev.readyState = READY_STATE_OPEN) =>
        /\ Len(sent) = 1
        /\ sent[1].to = ev.ws /\ sent[1].type = "device_list"
        /\ LET list == sent[1].data
               others == {c \in Registered : c.id # ev.ws}
           IN  /\ Len(list) = Cardinality(others)
               /\ \A c \in others :
                     Occurrences(list, c.deviceMeta)
                        = Cardinality({d \in others : d.deviceMeta = c.deviceMeta})

---------------------------------------------------------------------------
(* C11: an upgrade request without a token is answered 400, one with a     *)
(* token that is not in the token set (never issued, or consumed) 401; in  *)
(* both cases the step accepts no socket, sends no envelope and leaves the *)
(* token set, the registry and the armed sweep as they were.               *)
C11_RejectedUpgradeInert ==
    [][(ev'.op = "ws") =>
          /\ (ev'.token = 0) => ev'.status = 400
          /\ (ev'.token # 0 /\ ev'.token \notin DOMAIN tokens) => ev'.status = 401
          /\ (ev'.status \in {400, 401}) =>
                /\ sent' = <<>>
                /\ tokens' = tokens /\ sockets' = sockets /\ nextWs' = nextWs
                /\ alarm' = alarm /\ transfers' = transfers]_vars

\* a request without a token has been refused while a socket is registered
\* and an issued token is waiting
C11_Witness ==
    /\ Upgrading /\ ev.status = 400
    /\ sockets # <<>> /\ DOMAIN tokens # {}

---------------------------------------------------------------------------
(* C12: a malformed frame (binary or not JSON, JSON without a type, or     *)
(* JSON of a type that needs data without data) is discarded: its handler  *)
(* sends no envelope to anyone, appends no row and changes no socket's     *)
(* attachment or state.                                                    *)
Malformed(e) ==
    \/ e.op = "discard"
    \/ e.op = "message" /\ e.type = NoType
    \/ e.op = "message" /\ e.type = "device_update" /\ e.data = Undefined

C12_MalformedDiscarded ==
    [][Malformed(ev') =>
          /\ sent' = <<>>
          /\ sockets' = sockets
          /\ transfers' = transfers]_vars

---------------------------------------------------------------------------
---------------------------------------------------------------------------
(* C14: the forward of a send_text or send_file does not wait for the      *)
(* write: when the INSERT fails the frame has still reached the open       *)
(* socket tagged receiver_id, the only envelope sent is that forward (no   *)
(* error goes to the sender), no socket is closed or changed, and the row  *)
(* is not written later: a row appears only in the step of the frame it    *)
(* records.                                                                *)
C14_WriteFailureContained ==
    [][/\ (ev'.op = "message" /\ ev'.type \in {"send_text", "send_file"} /\ ~ev'.dbOk) =>
             LET X == ev'.data.receiver_id IN
             /\ \A c \in Tagged(X) :
                   (Tagged(X) = {c} /\ c.readyState = READY_STATE_OPEN)
                      => {sent'[k].to : k \in 1..Len(sent')} = {c.id}
             /\ Len(sent') <= 1
             /\ \A k \in 1..Len(sent') :
                   sent'[k].type = ev'.type /\ Sock(sent'[k].to).tag = X
             /\ sockets' = sockets
             /\ transfers' = transfers
       /\ (transfers' # transfers) =>
             (ev'.op = "message" /\ ev'.type \in {"send_text", "send_file"} /\ ev'.dbOk)
      ]_vars

\* a file frame with a storage_key was forwarded although its INSERT failed
C14_Witness ==
    /\ Handling("send_file") /\ ~ev.dbOk /\ ev.data.storage_key # "absent"
    /\ Len(sent) = 1 /\ transfers = <<>>

---------------------------------------------------------------------------
(* C18: a token request whose body lacks id, name or emoji is answered     *)
(* with a client error and stores no token; one with a complete DeviceMeta *)
(* is answered 200 and binds a fresh token to that body.                   *)
C18_IssueValidated ==
    [][(ev'.op = "wstoken") =>
          IF ev'.data \in DeviceMetas
          THEN /\ ev'.status = 200
               /\ ev'.token \notin DOMAIN tokens
               /\ tokens' = (ev'.token :> ev'.data) @@ tokens
          ELSE /\ ev'.status \in 400..499
               /\ tokens' = tokens]_vars

---------------------------------------------------------------------------
(* C15: an accepted upgrade adds one socket to the registry, open, with    *)
(* the body bound to the presented token at issue as metadata and that     *)
(* body's id as tag, and sends device_online with that body to every       *)
(* other open socket and to no one else.                                   *)
C15_UpgradeRegistersBoundIdentity ==
    [][(ev'.op = "ws" /\ ev'.status = 101) =>
          /\ ev'.token \in DOMAIN tokens
          /\ Len(sockets') = Len(sockets) + 1
          /\ SubSeq(sockets', 1, Len(sockets)) = sockets
          /\ LET bound == tokens[ev'.token]
                 server == sockets'[Len(sockets')]
             IN  /\ server.id = ev'.ws
                 /\ server.readyState = READY_STATE_OPEN
                 /\ server.deviceMeta = bound
                 /\ server.tag = bound.id
                 /\ {sent'[k].to : k \in 1..Len(sent')} = OpenIds
                 /\ Len(sent') = Cardinality(OpenIds)
                 /\ \A k \in 1..Len(sent') :
                       sent'[k].type = "device_online" /\ sent'[k].data = bound]_vars


---------------------------------------------------------------------------
(* C16: the close of a registered socket, whoever closed it, sends         *)
(* device_offline carrying that socket's tag to every other socket that is *)
(* open, and to no one else, and the socket leaves the registry.           *)
C16_CloseAnnounced ==
    [][(ev'.op = "close") =>
          \E c \in Registered :
             /\ c.id = ev'.ws
             /\ {sockets'[k] : k \in 1..Len(sockets')} = Registered \ {c}
             /\ {sent'[k].to : k \in 1..Len(sent')} = OpenIds \ {c.id}
             /\ Len(sent') = Cardinality(OpenIds \ {c.id})
             /\ \A k \in 1..Len(sent') :
                   /\ sent'[k].type = "device_offline"
                   /\ sent'[k].data = [deviceId |-> c.tag]]_vars

\* an open socket has closed: an open peer was told, a peer the sweep had
\* closed was not
C16_Witness ==
    /\ ev.op = "close" /\ ev.readyState = READY_STATE_OPEN
    /\ Len(sent) = 1 /\ Len(sockets) = 2
    /\ \E c \in Registered : c.readyState = READY_STATE_CLOSING

---------------------------------------------------------------------------
(* C17: a device_update frame puts its data in place of the sender's       *)
(* stored metadata and changes nothing else in the registry; from then on  *)
(* the device_list reply to any peer holds that data for the sender; and   *)
(* device_update with the same data is sent to every other open socket     *)
(* and not to the sender.                                                  *)
C17_UpdateReplacesAndBroadcasts ==
    [][(ev'.op = "message" /\ ev'.type = "device_update") =>
          \E i \in 1..Len(sockets) :
             /\ sockets[i].id = ev'.ws
             /\ sockets' = [sockets EXCEPT ![i].deviceMeta = ev'.data]
             /\ \A p \in 1..Len(sockets') :
                   p # i => Occurrences(DeviceListFor(sockets', sockets'[p]), ev'.data) >= 1
             /\ {sent'[k].to : k \in 1..Len(sent')} = OpenIds \ {ev'.ws}
             /\ Len(sent') = Cardinality(OpenIds \ {ev'.ws})
             /\ \A k \in 1..Len(sent') :
                   sent'[k].type = "device_update" /\ sent'[k].data = ev'.data]_vars

---------------------------------------------------------------------------
(* C19: a token has a lifetime after which it is no longer accepted.  The  *)
(* spec names no figure; TokenLifetime is the longest age the clock of     *)
(* this model can measure, so an upgrade accepted at that age refutes      *)
(* every shorter lifetime as well: no upgrade is accepted on a token as    *)
(* old as TokenLifetime.                                                   *)
TokenLifetime == MaxNow

C19_ExpiredTokenRefused ==
    (Upgrading /\ ev.status = 101) => ev.age < TokenLifetime

---------------------------------------------------------------------------
---------------------------------------------------------------------------
(* C21: whenever a socket is registered and no sweep is running, a sweep   *)
(* is armed: after every handler, the sweep's own included (it re-arms     *)
(* before it ends), a non-empty registry has an armed sweep, so no         *)
(* sequence of registrations, closes and sweeps leaves an open socket      *)
(* without one.                                                            *)
C21_ArmedWhileRegistered ==
    sockets # <<>> => (alarm # NoAlarm /\ alarm <= now + ALARM_INTERVAL_MS)

\* a sweep has run with nothing but sockets it closed itself left in the
\* registry, and has armed the next one
C21_Witness ==
    /\ ev.op = "alarm"
    /\ sockets # <<>> /\ OpenIds = {}
    /\ alarm = now + ALARM_INTERVAL_MS

---------------------------------------------------------------------------
(* C22: with the registry empty the monitor goes back to idle and stays    *)
(* there: the sweep that finds no socket arms nothing, a sweep runs only   *)
(* when one is armed and due, an idle monitor is armed by nothing but an   *)
(* accepted upgrade, and a sweep armed within the span of the clock over   *)
(* an empty registry does run and leave the monitor idle, unless a socket  *)
(* registers first.                                                        *)
C22_IdleWhenEmpty ==
    /\ [][/\ (ev'.op = "alarm" /\ sockets' = <<>>) => alarm' = NoAlarm
          /\ (ev'.op = "alarm") => (alarm # NoAlarm /\ now >= alarm)
          /\ (alarm = NoAlarm /\ alarm' # NoAlarm) => (ev'.op = "ws" /\ ev'.status = 101)
         ]_vars
    /\ (sockets = <<>> /\ alarm # NoAlarm /\ alarm <= MaxNow)
          ~> (alarm = NoAlarm \/ sockets # <<>>)

\* the last socket has gone, the sweep that followed found none and went
\* idle, and a later upgrade has armed the monitor again
C22_Witness ==
    /\ Upgrading /\ ev.status = 101
    /\ Len(sockets) = 1 /\ nextWs > 2
    /\ alarm = now + ALARM_INTERVAL_MS /\ now > ALARM_INTERVAL_MS

---------------------------------------------------------------------------
(* C23: the id in the stored metadata of every registered socket is the    *)
(* socket's tag, in every reachable state: a device_update changes name    *)
(* and emoji and leaves the identity peers see alone.                      *)
C23_MetaIdIsTag ==
    \A c \in Registered : c.deviceMeta # Undefined /\ c.deviceMeta.id = c.tag

---------------------------------------------------------------------------
(* C24: a point-to-point frame with receiver_id X is forwarded whenever an *)
(* open socket tagged X is registered, however many sockets carry the tag, *)
(* and then exactly one envelope goes out, to an open socket tagged X.     *)
C24_ForwardedToLiveReceiver ==
    (PointToPoint /\ ev.data.receiver_id # "absent") =>
        LET X == ev.data.receiver_id
            live == {c \in Tagged(X) : c.readyState = READY_STATE_OPEN}
        IN  live # {} => (Len(sent) = 1 /\ sent[1].to \in {c.id : c \in live})

---------------------------------------------------------------------------
(* C25: a socket's record changes only through frames of that socket: its  *)
(* metadata only in the step of its own device_update, its lastPing only   *)
(* in the step of its own ping, its tag never; and the step of a frame     *)
(* leaves the record of every socket but the sender's as it was and the    *)
(* registry with the same sockets.                                         *)
Record(c) == [tag |-> c.tag, deviceMeta |-> c.deviceMeta, lastPing |-> c.lastPing,
              readyState |-> c.readyState]

C25_RecordOwnedBySender ==
    [][/\ \A c \in Registered :
             \A k \in 1..Len(sockets') :
                sockets'[k].id = c.id =>
                   LET d == sockets'[k] IN
                   /\ d.tag = c.tag
                   /\ (d.deviceMeta # c.deviceMeta) =>
                         (ev'.op = "message" /\ ev'.type = "device_update" /\ ev'.ws = c.id)
                   /\ (d.lastPing # c.lastPing) =>
                         (ev'.op = "message" /\ ev'.type = "ping" /\ ev'.ws = c.id)
       /\ (ev'.op \in {"message", "discard"}) =>
             /\ Len(sockets') = Len(sockets)
             /\ \A k \in 1..Len(sockets) :
                   /\ sockets'[k].id = sockets[k].id
                   /\ sockets[k].id # ev'.ws => Record(sockets'[k]) = Record(sockets[k])
      ]_vars

\* a late ping has refreshed the sender's lastPing and nothing else: a peer
\* that registered at the start and renamed itself keeps its old lastPing
C25_Witness ==
    /\ Handling("ping") /\ now > 0 /\ Sock(ev.ws).lastPing = now
    /\ Sock(ev.ws).deviceMeta \in DeviceMetas
    /\ \E c \in Registered :
          c.id # ev.ws /\ c.lastPing = 0 /\ c.deviceMeta \in UpdateData \ {Undefined}

---------------------------------------------------------------------------
(* C26: whenever device_offline carrying device id X is sent to a peer, no *)
(* open socket tagged X is left in the registry: the close of one of       *)
(* several sockets sharing a tag does not announce the device offline      *)
(* while another of them is open.                                          *)
C26_OfflineMeansGone ==
    \A k \in 1..Len(sent) :
        sent[k].type = "device_offline" =>
            ~ \E c \in Registered :
                 c.tag = sent[k].data.deviceId /\ c.readyState = READY_STATE_OPEN

---------------------------------------------------------------------------
(* C27: an envelope of type device_online, device_offline, device_list or  *)
(* pong is on a socket only as the coordinator's own word: sent in the     *)
(* step of an accepted upgrade, a close, a device_list request or a ping   *)
(* respectively, never as the forward of a client's frame of that type.    *)
C27_AnnouncementsAreOwn ==
    \A k \in 1..Len(sent) :
        /\ sent[k].type = "device_online" => (Upgrading /\ ev.status = 101)
        /\ sent[k].type = "device_offline" => ev.op = "close"
        /\ sent[k].type = "device_list" => Handling("device_list")
        /\ sent[k].type = "pong" => Handling("ping")

---------------------------------------------------------------------------
---------------------------------------------------------------------------
(* C29: the file_id of a transfers row written by send_file is the id of   *)
(* a files row, the one the upload created for the storage_key the payload *)
(* carried, so that transfers.file_id -> files.id is satisfied.            *)
C29_FileIdReferencesFile ==
    (Handling("send_file") /\ ev.dbOk /\ ev.data.storage_key # "absent") =>
        LET row == transfers[Len(transfers)]
        IN  \E f \in Files : f.storage_key = ev.data.storage_key /\ row.file_id = f.id

---------------------------------------------------------------------------
(* C30: for every invitation code use_count never exceeds max_uses, and no *)
(* more than max_uses users are registered with the code, also when        *)
(* registrations presenting the same code are served concurrently.         *)
C30_CodeUsesBounded ==
    \A code \in DOMAIN invitation_codes :
        /\ invitation_codes[code].use_count <= invitation_codes[code].max_uses
        /\ Cardinality({u \in users : u.invited_by = code}) <= invitation_codes[code].max_uses

====
